---- MODULE Spec2Model ----
(***************************************************************************)
(* Model of the TTL-aware LRU cache of src/lru.go (type Cache[K, V]).      *)
(*                                                                         *)
(* The recency order c.list is a sequence of entries, front = index 1.     *)
(* A *list.Element is identified by its position in that sequence; the     *)
(* key index c.items maps a key to the position of the element it points   *)
(* to, and every list operation renumbers the pointers it moves (position  *)
(* 0 is an element that was removed from the list while still pointed to). *)
(* time.Time is an integer instant, 0 being the zero Time (never expires); *)
(* time.Duration is an integer.                                            *)
(***************************************************************************)
EXTENDS Integers, Sequences, FiniteSets, TLC

\* ------------------------------------------------------------- constants
DefaultCacheSize == 10

\* ---------------------------------------------------------------- bounds
MaxCap == 2
MaxTime == 3
MaxTasks == 2
MaxSweepers == 1

KeySet == {"a", "b", "c"}
ValueSet == {1, 2}
TTLArgs == {0, 1}
ExpireArgs == {-1, 0, 1}
SizeArgs == {-1, 0, 1, MaxCap}
LongKeySet == {"a", "b"}
LongArgs == {-2, 0, 2}
CleanKeySet == {"a", "b"}
IntervalArgs == {0, 1}
SweepArgs == {1}
ThreadIds == {1, 2}
RaceKeySet == {"a", "b"}
NoKey == "-"
ZeroValue == 0
NilCh == 0

VARIABLES
  list,     \* c.list: the entries, most recently used first
  items,    \* c.items: key -> position of its element in list
  size,     \* c.size: the capacity
  ttl,      \* c.ttl: the default time-to-live
  now,      \* the clock read by time.Now()
  last,     \* the last step: the call's name, its key and its results
  touch,    \* history: stored keys by most recent promoting touch
  written,  \* history: stored key -> value of the last Set of that key
  cleanerStopCh,    \* c.cleanerStopCh: a channel, or NilCh
  cleanerInterval,  \* c.cleanerInterval
  chanClosed,       \* the channels made so far: channel -> closed or not
  finalizer,        \* whether a finalizer is set on the cache
  tasks,            \* the goroutines running cleanerLoop, in launch order
  threads,  \* the callers inside Peek: thread -> where it is, and its key
  lenSkew,  \* c.list.len, as its distance from the number of linked elements
  cleared   \* the keys whose element has left the list (e.list == nil)
            \* while a thread inside Peek still holds it

raceVars == <<threads, lenSkew, cleared>>
cleanerVars ==
  <<cleanerStopCh, cleanerInterval, chanClosed, finalizer, tasks>>
vars == <<list, items, size, ttl, now, last, touch, written, cleanerStopCh,
          cleanerInterval, chanClosed, finalizer, tasks, threads, lenSkew,
          cleared>>

\* ------------------------------------------------------------- time.Time
IsZero(t) == t = 0
Before(t, u) == t < u
After(t, u) == t > u
Add(t, d) == t + d

\* ------------------------------------------------------------------ maps
MapSet(m, k, v) == [x \in (DOMAIN m) \cup {k} |-> IF x = k THEN v ELSE m[x]]
MapDelete(m, k) == [x \in (DOMAIN m) \ {k} |-> m[x]]
EmptyMap == [x \in {} |-> 0]

\* ------------------------------------------------------- container/list
\* A cache value c is the record [list, items] of the two structures.
RemoveAt(s, p) == SubSeq(s, 1, p - 1) \o SubSeq(s, p + 1, Len(s))

\* Mutant: the new element is linked at the back.
PushFront_back(c, v) == [list |-> Append(c.list, v), items |-> c.items]

PushFront(c, v) ==
  [list  |-> <<v>> \o c.list,
   items |-> [k \in DOMAIN c.items |->
                IF c.items[k] = 0 THEN 0 ELSE c.items[k] + 1]]

\* Mutant: the element stays where it is.
MoveToFront_noop(c, p) == c

MoveToFront(c, p) ==
  IF p = 0 \/ p = 1 THEN c
  ELSE [list  |-> <<c.list[p]>> \o RemoveAt(c.list, p),
        items |-> [k \in DOMAIN c.items |->
                     IF c.items[k] = 0 THEN 0
                     ELSE IF c.items[k] = p THEN 1
                     ELSE IF c.items[k] < p THEN c.items[k] + 1
                     ELSE c.items[k]]]

ListRemove(c, p) ==
  IF p = 0 THEN c
  ELSE [list  |-> RemoveAt(c.list, p),
        items |-> [k \in DOMAIN c.items |->
                     IF c.items[k] = p THEN 0
                     ELSE IF c.items[k] > p THEN c.items[k] - 1
                     ELSE c.items[k]]]

\* ----------------------------------------------------------------- entry
Entry(key, value, expireAt) ==
  [key |-> key, value |-> value, expireAt |-> expireAt]

C == [list |-> list, items |-> items]


\* -------------------------------------------------------- expiry checks
\* Mutant: !now.After(expireAt), which serves the entry at its expiry instant.
notExpired_inclusive(item, t) ==
  IsZero(item.expireAt) \/ ~After(t, item.expireAt)

\* get, Keys and Range: the entry is served.
notExpired(item, t) == IsZero(item.expireAt) \/ Before(t, item.expireAt)

\* Mutant: Purge also takes the entry whose expiry is the present instant.
purgeExpired_inclusive(item, t) ==
  ~IsZero(item.expireAt) /\ ~Before(t, item.expireAt)

\* Purge: the entry is swept.
purgeExpired(item, t) == ~IsZero(item.expireAt) /\ After(t, item.expireAt)

\* ------------------------------------------------------ internal methods
\* Mutant: the element leaves the list and its key stays in the index.
removeElement_keepsIndex(c, p) == ListRemove(c, p)

\* removeElement: the element leaves the list and its key the index.
removeElement(c, p) ==
  LET item == c.list[p]
      c1   == ListRemove(c, p)
  IN  [c1 EXCEPT !.items = MapDelete(c1.items, item.key)]

\* Mutant: the eviction takes the front of the list, not the back.
removeOldest_front(c) ==
  IF Len(c.list) > 0 THEN removeElement(c, 1) ELSE c

removeOldest(c) ==
  IF Len(c.list) > 0 THEN removeElement(c, Len(c.list)) ELSE c

\* Mutant: the expiry is now plus the default TTL whatever its sign.
newExpireAt_unchecked(d, t) == Add(t, d)

\* Set: the expiry computed from the default TTL.
newExpireAt(d, t) == IF d > 0 THEN Add(t, d) ELSE 0

\* Mutant: the expiry is renewed whether or not the old entry had one.
updatedEntry_renew(item, key, value, expireAt) == Entry(key, value, expireAt)

\* Set on a stored key: the entry written over the old one.
updatedEntry(item, key, value, expireAt) ==
  IF ~IsZero(item.expireAt)
    THEN Entry(key, value, expireAt)
    ELSE Entry(key, value, 0)

\* Mutant: on overflow Set removes an expired entry, if there is one, and
\* the back entry otherwise.
set_evictsExpired(c, key, value, cap, d, t) ==
  LET expireAt == newExpireAt(d, t) IN
  IF key \in DOMAIN c.items
    THEN LET e  == c.items[key]
             c1 == [c EXCEPT !.list[e] =
                       updatedEntry(c.list[e], key, value, expireAt)]
         IN  MoveToFront(c1, e)
    ELSE LET c1 == PushFront(c, Entry(key, value, expireAt))
             c2 == [c1 EXCEPT !.items = MapSet(c1.items, key, 1)]
             ex == {i \in 2..Len(c2.list) : ~notExpired(c2.list[i], t)}
         IN  IF Len(c2.list) > cap
               THEN IF ex # {}
                      THEN removeElement(c2, CHOOSE i \in ex :
                                               \A j \in ex : j <= i)
                      ELSE removeOldest(c2)
               ELSE c2

\* Set: what it does to list and items.
set(c, key, value, cap, d, t) ==
  LET expireAt == newExpireAt(d, t) IN
  IF key \in DOMAIN c.items
    THEN LET e  == c.items[key]
             c1 == [c EXCEPT !.list[e] =
                       updatedEntry(c.list[e], key, value, expireAt)]
         IN  MoveToFront(c1, e)
    ELSE LET c1 == PushFront(c, Entry(key, value, expireAt))
             c2 == [c1 EXCEPT !.items = MapSet(c1.items, key, 1)]
         IN  IF Len(c2.list) > cap THEN removeOldest(c2) ELSE c2

\* Mutant: now.Add(duration) whatever the sign of the duration.
expiredEntry_unchecked(item, duration, t) ==
  Entry(item.key, item.value, Add(t, duration))

\* Expire: the entry written over the old one.
expiredEntry(item, duration, t) ==
  Entry(item.key, item.value, IF duration > 0 THEN Add(t, duration) ELSE 0)

\* Mutant: a handle whose key is gone stores an entry for it.
expire_creates(c, key, duration, t) ==
  IF key \in DOMAIN c.items
    THEN LET e == c.items[key]
         IN  [c EXCEPT !.list[e] = expiredEntry(c.list[e], duration, t)]
    ELSE LET c1 == PushFront(c, expiredEntry(Entry(key, ZeroValue, 0),
                                             duration, t))
         IN  [c1 EXCEPT !.items = MapSet(c1.items, key, 1)]

\* Expire: the body under the lock.
expire(c, key, duration, t) ==
  IF key \in DOMAIN c.items
    THEN LET e == c.items[key]
         IN  [c EXCEPT !.list[e] = expiredEntry(c.list[e], duration, t)]
    ELSE c

\* Mutant: the promotion is skipped.
promote_never(c, e, updatePos) == c

\* Mutant: the promotion ignores updatePos.
promote_always(c, e, updatePos) == MoveToFront(c, e)

\* get: the move to the front, when asked for.
promote(c, e, updatePos) == IF updatePos THEN MoveToFront(c, e) ELSE c

\* Mutant: an expired entry is reported absent and left in place.
get_keepsExpired(c, key, updatePos, t) ==
  IF key \in DOMAIN c.items
    THEN LET e    == c.items[key]
             item == c.list[e]
         IN  IF notExpired(item, t)
               THEN [c     |-> promote(c, e, updatePos),
                     value |-> item.value, found |-> TRUE]
               ELSE [c     |-> c, value |-> ZeroValue, found |-> FALSE]
    ELSE [c |-> c, value |-> ZeroValue, found |-> FALSE]

\* get: the cache afterwards, the value and the found flag.
get(c, key, updatePos, t) ==
  IF key \in DOMAIN c.items
    THEN LET e    == c.items[key]
             item == c.list[e]
         IN  IF notExpired(item, t)
               THEN [c     |-> promote(c, e, updatePos),
                     value |-> item.value, found |-> TRUE]
               ELSE [c     |-> removeElement(c, e),
                     value |-> ZeroValue, found |-> FALSE]
    ELSE [c |-> c, value |-> ZeroValue, found |-> FALSE]

\* Purge: the walk from position p on, count entries removed so far.
RECURSIVE purgeFrom(_, _, _, _)
purgeFrom(c, p, t, count) ==
  IF p > Len(c.list) THEN [c |-> c, count |-> count]
  ELSE IF purgeExpired(c.list[p], t)
    THEN purgeFrom(removeElement(c, p), p, t, count + 1)
    ELSE purgeFrom(c, p + 1, t, count)

purge(c, t) == purgeFrom(c, 1, t, 0)

\* Mutant: only a negative size is replaced by the default.
normalizeSize_negative(n) == IF n < 0 THEN DefaultCacheSize ELSE n

\* New, SetCapacity: the size that is not positive becomes the default.
normalizeSize(n) == IF n <= 0 THEN DefaultCacheSize ELSE n

\* Mutant: the loop evicts the most recently used entry.
RECURSIVE trim_front(_, _)
trim_front(c, cap) ==
  IF Len(c.list) > cap THEN trim_front(removeElement(c, 1), cap) ELSE c

\* Mutant: an if where the loop is, one eviction at most.
trim_once(c, cap) == IF Len(c.list) > cap THEN removeOldest(c) ELSE c

\* SetCapacity: the eviction loop.
RECURSIVE trim(_, _)
trim(c, cap) == IF Len(c.list) > cap THEN trim(removeOldest(c), cap) ELSE c

\* -------------------------------------------------------- introspection
\* Size(): c.list.Len(), the len field of the list.
Size == Len(list) + lenSkew
Capacity == size

\* Mutant: Keys appends the key of every entry, expired or not.
liveKeys_all(s, t) == [i \in 1..Len(s) |-> s[i].key]

\* Keys: the loop over the list s at instant t.
RECURSIVE liveKeys(_, _)
liveKeys(s, t) ==
  IF s = <<>> THEN <<>>
  ELSE (IF notExpired(Head(s), t) THEN <<Head(s).key>> ELSE <<>>)
       \o liveKeys(Tail(s), t)

Keys == liveKeys(list, now)

\* Range: the visitor fn is given by the set stop of the keys on which it
\* returns false. A call of fn is the pair of its arguments.
fn(stop, key, value) == key \notin stop

\* Mutant: the result of fn is ignored.
RECURSIVE visit_noBreak(_, _, _)
visit_noBreak(s, t, stop) ==
  IF s = <<>> THEN <<>>
  ELSE IF notExpired(Head(s), t)
    THEN <<<<Head(s).key, Head(s).value>>>> \o visit_noBreak(Tail(s), t, stop)
    ELSE visit_noBreak(Tail(s), t, stop)

\* Range: the loop over the list s at instant t, as the sequence of the
\* calls of fn it makes.
RECURSIVE visit(_, _, _)
visit(s, t, stop) ==
  IF s = <<>> THEN <<>>
  ELSE IF notExpired(Head(s), t)
    THEN <<<<Head(s).key, Head(s).value>>>> \o
         (IF fn(stop, Head(s).key, Head(s).value)
            THEN visit(Tail(s), t, stop) ELSE <<>>)
    ELSE visit(Tail(s), t, stop)

\* --------------------------------------------------------------- history
\* The record of a step: the call, its key, the value passed (Set; the size
\* passed to New and SetCapacity) or returned (Get, Peek, Purge's count), the
\* found flag returned (Set, Expire:
\* whether the index held the key), and the number of keys the step took out
\* of the index.
Call(op, key, found, val, removed) ==
  [op |-> op, key |-> key, found |-> found, val |-> val, removed |-> removed]

Without(s, k) == SelectSeq(s, LAMBDA x : x # k)
Stored(s, m) == SelectSeq(s, LAMBDA x : x \in DOMAIN m)

\* A step that promotes key k (k = NoKey: none) and writes value v to it
\* (v = ZeroValue: no write), leaving the index m.
History(m, k, v) ==
  /\ touch' = Stored(IF k = NoKey THEN touch ELSE <<k>> \o Without(touch, k), m)
  /\ written' = [x \in DOMAIN m |->
                   IF x = k /\ v # ZeroValue THEN v
                   ELSE IF x \in DOMAIN written THEN written[x]
                   ELSE ZeroValue]

\* A call that leaves the structures c1 and returns (val, found).
Return(c1, op, key, found, val) ==
  /\ list' = c1.list
  /\ items' = c1.items
  /\ last' = Call(op, key, found, val,
                  Cardinality((DOMAIN items) \ (DOMAIN c1.items)))
  /\ UNCHANGED cleanerVars
  /\ UNCHANGED raceVars

\* ------------------------------------------------------------------ Init
Init ==
  \E n \in SizeArgs :
    /\ list = <<>>
    /\ items = EmptyMap
    /\ size = normalizeSize(n)
    /\ ttl = 0
    /\ now = 1
    /\ last = Call("New", NoKey, FALSE, n, 0)
    /\ touch = <<>>
    /\ written = EmptyMap
    /\ cleanerStopCh = 1
    /\ cleanerInterval = 0
    /\ chanClosed = <<FALSE>>
    /\ finalizer = FALSE
    /\ tasks = <<>>
    /\ threads = [th \in ThreadIds |-> [pc |-> "idle", key |-> NoKey]]
    /\ lenSkew = 0
    /\ cleared = {}

\* --------------------------------------------------------------- actions
\* Time passes between calls, up to the instant limit.
Tick(limit) ==
  /\ now < limit
  /\ now' = now + 1
  /\ last' = Call("Tick", NoKey, FALSE, 0, 0)
  /\ UNCHANGED <<list, items, size, ttl, touch, written>>
  /\ UNCHANGED cleanerVars
  /\ UNCHANGED raceVars

TTL(duration) ==
  /\ ttl' = duration
  /\ last' = Call("TTL", NoKey, FALSE, 0, 0)
  /\ UNCHANGED <<list, items, size, now, touch, written>>
  /\ UNCHANGED cleanerVars
  /\ UNCHANGED raceVars

Set(key, value) ==
  LET c1 == set(C, key, value, size, ttl, now) IN
  /\ Return(c1, "Set", key, key \in DOMAIN items, value)
  /\ History(c1.items, key, value)
  /\ UNCHANGED <<size, ttl, now>>

\* The handle is the key and the cache: Set(k, _) returns it, and
\* Set(a); Set(b); Set(c); Clear() at the start hands out every handle and
\* leaves the cache as New left it, so Expire is enabled for every key.
Expire(key, duration) ==
  LET c1 == expire(C, key, duration, now) IN
  /\ Return(c1, "Expire", key, key \in DOMAIN items, 0)
  /\ History(c1.items, NoKey, ZeroValue)
  /\ UNCHANGED <<size, ttl, now>>

Get(key) ==
  LET r == get(C, key, TRUE, now) IN
  /\ Return(r.c, "Get", key, r.found, r.value)
  /\ History(r.c.items, IF r.found THEN key ELSE NoKey, ZeroValue)
  /\ UNCHANGED <<size, ttl, now>>

Peek(key) ==
  LET r == get(C, key, FALSE, now) IN
  /\ Return(r.c, "Peek", key, r.found, r.value)
  /\ History(r.c.items, NoKey, ZeroValue)
  /\ UNCHANGED <<size, ttl, now>>

\* Mutant: Delete reports true whether or not the key was stored.
Delete_alwaysTrue(key) ==
  LET found == key \in DOMAIN items
      c1    == IF found THEN removeElement(C, items[key]) ELSE C
  IN
  /\ Return(c1, "Delete", key, TRUE, 0)
  /\ History(c1.items, NoKey, ZeroValue)
  /\ UNCHANGED <<size, ttl, now>>

Delete(key) ==
  LET found == key \in DOMAIN items
      c1    == IF found THEN removeElement(C, items[key]) ELSE C
  IN
  /\ Return(c1, "Delete", key, found, 0)
  /\ History(c1.items, NoKey, ZeroValue)
  /\ UNCHANGED <<size, ttl, now>>

Purge ==
  LET r == purge(C, now) IN
  /\ Return(r.c, "Purge", NoKey, FALSE, r.count)
  /\ History(r.c.items, NoKey, ZeroValue)
  /\ UNCHANGED <<size, ttl, now>>

SetCapacity(n) ==
  LET cap == normalizeSize(n)
      c1  == trim(C, cap)
  IN
  /\ size' = cap
  /\ Return(c1, "SetCapacity", NoKey, FALSE, n)
  /\ History(c1.items, NoKey, ZeroValue)
  /\ UNCHANGED <<ttl, now>>

\* Mutant: Clear also resets the capacity to the default.
Clear_resetsCapacity ==
  LET c1 == [list |-> <<>>, items |-> EmptyMap] IN
  /\ Return(c1, "Clear", NoKey, FALSE, 0)
  /\ History(c1.items, NoKey, ZeroValue)
  /\ size' = DefaultCacheSize
  /\ UNCHANGED <<ttl, now>>

Clear ==
  LET c1 == [list |-> <<>>, items |-> EmptyMap] IN
  /\ Return(c1, "Clear", NoKey, FALSE, 0)
  /\ History(c1.items, NoKey, ZeroValue)
  /\ UNCHANGED <<size, ttl, now>>

\* An expiry that a duration d sets now lies within the instants of the clock.
Horizon(d) == d > 0 => now + d <= MaxTime

Next ==
  \/ Tick(MaxTime)
  \/ \E d \in TTLArgs : TTL(d)
  \/ \E k \in KeySet, v \in ValueSet : Horizon(ttl) /\ Set(k, v)
  \/ \E k \in KeySet, d \in ExpireArgs : Horizon(d) /\ Expire(k, d)
  \/ \E k \in KeySet : Get(k)
  \/ \E k \in KeySet : Peek(k)
  \/ \E k \in KeySet : Delete(k)
  \/ Purge
  \/ \E n \in SizeArgs : SetCapacity(n)
  \/ Clear

Spec == Init /\ [][Next]_vars

\* The same calls on two keys with durations of two instants, one instant
\* further: an entry is read one instant after it was written and before it
\* expires, and the default TTL takes a negative value.
NextLong ==
  \/ Tick(MaxTime + 1)
  \/ \E d \in LongArgs : TTL(d)
  \/ \E k \in LongKeySet, v \in ValueSet : Set(k, v)
  \/ \E k \in LongKeySet, d \in LongArgs : Expire(k, d)
  \/ \E k \in LongKeySet : Get(k)
  \/ \E k \in LongKeySet : Peek(k)
  \/ \E k \in LongKeySet : Delete(k)
  \/ Purge
  \/ \E n \in SizeArgs : SetCapacity(n)
  \/ Clear

SpecLong == Init /\ [][NextLong]_vars

\* ------------------------------------------------------ cleaner lifecycle
\* The channels made so far are numbered from 1 in the order of their make;
\* chanClosed[ch] tells whether close(ch) has run.
closeCh(chs, ch) == [chs EXCEPT ![ch] = TRUE]
makeCh(chs) == Append(chs, FALSE)

\* A goroutine running cleanerLoop: where it is (pc: "start" before its
\* ticker exists, "loop" before the select, "wait" blocked in the select,
\* "tick" between the tick it received and its Purge, "done" returned),
\* the stop channel its select waits on, the interval of its ticker, gen
\* the parity of the number of times the recover handler relaunched it,
\* and three history fields: Close has returned since it was launched
\* (afterClose), Cleaner has been called again since it was launched
\* (replaced), the interval of the Cleaner call that launched it (arg).
NewTask ==
  [pc |-> "start", ch |-> NilCh, interval |-> 0, gen |-> 0,
   afterClose |-> FALSE, replaced |-> FALSE, arg |-> 0]

IsTask(t) == t \in 1..Len(tasks)

\* A step that leaves the cache as it is.
CacheUnchanged ==
  UNCHANGED <<list, items, size, ttl, now, touch, written, threads, lenSkew,
              cleared>>

\* Mutant: startCleaner closes the present stop channel and keeps it.
Cleaner_keepsChannel(interval) ==
  /\ IF cleanerStopCh # NilCh /\ chanClosed[cleanerStopCh]
       THEN /\ last' = Call("panic", NoKey, FALSE, 0, 0)
            /\ UNCHANGED cleanerVars
       ELSE /\ chanClosed' = IF cleanerStopCh # NilCh
                               THEN closeCh(chanClosed, cleanerStopCh)
                               ELSE makeCh(chanClosed)
            /\ cleanerInterval' = interval
            /\ cleanerStopCh' = IF cleanerStopCh # NilCh
                                  THEN cleanerStopCh
                                  ELSE Len(chanClosed) + 1
            /\ tasks' = Append([t \in 1..Len(tasks) |->
                                  [tasks[t] EXCEPT !.replaced = TRUE]],
                               [NewTask EXCEPT !.arg = interval])
            /\ finalizer' = TRUE
            /\ last' = Call("Cleaner", NoKey, FALSE, interval, 0)
  /\ CacheUnchanged

\* Cleaner(interval): startCleaner closes the present stop channel, if any,
\* stores the interval and a fresh stop channel and launches cleanerLoop;
\* then the finalizer is set. close of a closed channel panics and the call
\* ends there.
Cleaner(interval) ==
  /\ IF cleanerStopCh # NilCh /\ chanClosed[cleanerStopCh]
       THEN /\ last' = Call("panic", NoKey, FALSE, 0, 0)
            /\ UNCHANGED cleanerVars
       ELSE /\ chanClosed' =
                 makeCh(IF cleanerStopCh # NilCh
                          THEN closeCh(chanClosed, cleanerStopCh)
                          ELSE chanClosed)
            /\ cleanerInterval' = interval
            /\ cleanerStopCh' = Len(chanClosed) + 1
            /\ tasks' = Append([t \in 1..Len(tasks) |->
                                  [tasks[t] EXCEPT !.replaced = TRUE]],
                               [NewTask EXCEPT !.arg = interval])
            /\ finalizer' = TRUE
            /\ last' = Call("Cleaner", NoKey, FALSE, interval, 0)
  /\ CacheUnchanged

\* Mutant: the stop channel is closed and kept.
Close_keepsChannel ==
  /\ IF cleanerStopCh # NilCh /\ chanClosed[cleanerStopCh]
       THEN /\ last' = Call("panic", NoKey, FALSE, 0, 0)
            /\ UNCHANGED cleanerVars
       ELSE /\ chanClosed' = closeCh(chanClosed, cleanerStopCh)
            /\ finalizer' = FALSE
            /\ last' = Call("Close", NoKey, FALSE,
                            IF last.op = "Close" THEN 2 ELSE 1, 0)
            /\ UNCHANGED <<cleanerStopCh, cleanerInterval, tasks>>
  /\ CacheUnchanged

\* Close(): closes the stop channel, if any, and forgets it; then the
\* finalizer is cleared. (The step record counts the Close calls in a row,
\* up to 2.)
Close ==
  /\ IF cleanerStopCh # NilCh /\ chanClosed[cleanerStopCh]
       THEN /\ last' = Call("panic", NoKey, FALSE, 0, 0)
            /\ UNCHANGED cleanerVars
       ELSE /\ chanClosed' = IF cleanerStopCh # NilCh
                               THEN closeCh(chanClosed, cleanerStopCh)
                               ELSE chanClosed
            /\ cleanerStopCh' = NilCh
            /\ finalizer' = FALSE
            /\ tasks' = [t \in 1..Len(tasks) |->
                           [tasks[t] EXCEPT !.afterClose = TRUE]]
            /\ last' = Call("Close", NoKey, FALSE,
                            IF last.op = "Close" THEN 2 ELSE 1, 0)
            /\ UNCHANGED cleanerInterval
  /\ CacheUnchanged

\* Mutant: time.NewTicker accepts any interval.
TaskStart_anyInterval(t) ==
  /\ IsTask(t) /\ tasks[t].pc = "start"
  /\ tasks' = [tasks EXCEPT ![t].pc = "loop",
                            ![t].interval = cleanerInterval]
  /\ last' = Call("NewTicker", NoKey, FALSE, t, 0)
  /\ UNCHANGED <<cleanerStopCh, cleanerInterval, chanClosed, finalizer>>
  /\ CacheUnchanged

\* Mutant: the deferred handler recovers and does not launch cleanerLoop
\* again.
TaskStart_noRestart(t) ==
  /\ IsTask(t) /\ tasks[t].pc = "start"
  /\ IF cleanerInterval <= 0
       THEN /\ tasks' = [tasks EXCEPT ![t].pc = "done"]
            /\ last' = Call("recover", NoKey, FALSE, t, 0)
       ELSE /\ tasks' = [tasks EXCEPT ![t].pc = "loop",
                                      ![t].interval = cleanerInterval]
            /\ last' = Call("NewTicker", NoKey, FALSE, t, 0)
  /\ UNCHANGED <<cleanerStopCh, cleanerInterval, chanClosed, finalizer>>
  /\ CacheUnchanged

\* cleanerLoop, its first statement: time.NewTicker(c.cleanerInterval)
\* panics for an interval that is not positive; the deferred handler
\* recovers and launches cleanerLoop again.
TaskStart(t) ==
  /\ IsTask(t) /\ tasks[t].pc = "start"
  /\ IF cleanerInterval <= 0
       THEN /\ tasks' = [tasks EXCEPT ![t].gen = 1 - @]
            /\ last' = Call("recover", NoKey, FALSE, t, 0)
       ELSE /\ tasks' = [tasks EXCEPT ![t].pc = "loop",
                                      ![t].interval = cleanerInterval]
            /\ last' = Call("NewTicker", NoKey, FALSE, t, 0)
  /\ UNCHANGED <<cleanerStopCh, cleanerInterval, chanClosed, finalizer>>
  /\ CacheUnchanged

\* cleanerLoop, entering the select: the channel operand c.cleanerStopCh is
\* read, without the lock, each time round the loop.
TaskSelect(t) ==
  /\ IsTask(t) /\ tasks[t].pc = "loop"
  /\ tasks' = [tasks EXCEPT ![t].pc = "wait", ![t].ch = cleanerStopCh]
  /\ last' = Call("select", NoKey, FALSE, t, 0)
  /\ UNCHANGED <<cleanerStopCh, cleanerInterval, chanClosed, finalizer>>
  /\ CacheUnchanged

\* cleanerLoop, case <-ticker.C: the ticker has fired.
TaskTick(t) ==
  /\ IsTask(t) /\ tasks[t].pc = "wait"
  /\ tasks' = [tasks EXCEPT ![t].pc = "tick"]
  /\ last' = Call("tick", NoKey, FALSE, t, 0)
  /\ UNCHANGED <<cleanerStopCh, cleanerInterval, chanClosed, finalizer>>
  /\ CacheUnchanged

\* cleanerLoop, case <-c.cleanerStopCh: a receive from a closed channel
\* proceeds, a receive from an open or a nil channel blocks.
TaskStop(t) ==
  /\ IsTask(t) /\ tasks[t].pc = "wait"
  /\ tasks[t].ch # NilCh /\ chanClosed[tasks[t].ch]
  /\ tasks' = [tasks EXCEPT ![t].pc = "done"]
  /\ last' = Call("stop", NoKey, FALSE, t, 0)
  /\ UNCHANGED <<cleanerStopCh, cleanerInterval, chanClosed, finalizer>>
  /\ CacheUnchanged

\* Mutant: the tick is taken and Purge is not called.
TaskPurge_skip(t) ==
  /\ IsTask(t) /\ tasks[t].pc = "tick"
  /\ tasks' = [tasks EXCEPT ![t].pc = "loop"]
  /\ last' = Call("cleanerPurge", NoKey, FALSE, 0, 0)
  /\ UNCHANGED <<cleanerStopCh, cleanerInterval, chanClosed, finalizer>>
  /\ CacheUnchanged

\* cleanerLoop, c.Purge() after a tick.
TaskPurge(t) ==
  /\ IsTask(t) /\ tasks[t].pc = "tick"
  /\ LET r == purge(C, now) IN
       /\ list' = r.c.list
       /\ items' = r.c.items
       /\ History(r.c.items, NoKey, ZeroValue)
       /\ last' = Call("cleanerPurge", NoKey, FALSE, r.count,
                       Cardinality((DOMAIN items) \ (DOMAIN r.c.items)))
  /\ tasks' = [tasks EXCEPT ![t].pc = "loop"]
  /\ UNCHANGED <<cleanerStopCh, cleanerInterval, chanClosed, finalizer>>
  /\ UNCHANGED <<size, ttl, now>>
  /\ UNCHANGED raceVars

\* The cache of two keys with its cleaner, launched MaxTasks times at most:
\* entries are written without expiry (the default TTL stays 0) and given an
\* expiry that the clock can pass.
NextClean ==
  \/ Tick(MaxTime)
  \/ \E k \in CleanKeySet : Set(k, 1)
  \/ \E k \in CleanKeySet : now + 1 < MaxTime /\ Expire(k, 1)
  \/ \E i \in IntervalArgs : Len(tasks) < MaxTasks /\ Cleaner(i)
  \/ Close
  \/ \E t \in 1..MaxTasks : TaskStart(t)
  \/ \E t \in 1..MaxTasks : TaskSelect(t)
  \/ \E t \in 1..MaxTasks : TaskTick(t)
  \/ \E t \in 1..MaxTasks : TaskStop(t)
  \/ \E t \in 1..MaxTasks : TaskPurge(t)

\* New(0).
InitClean == Init /\ last.val = 0

SpecClean == InitClean /\ [][NextClean]_vars

\* The clock advances, the ticker of a waiting task fires, and a goroutine
\* that can take its next step takes it.
FairClean ==
  /\ WF_vars(Tick(MaxTime))
  /\ \A t \in 1..MaxTasks :
       /\ WF_vars(TaskStart(t))
       /\ WF_vars(TaskSelect(t))
       /\ WF_vars(TaskTick(t))
       /\ WF_vars(TaskStop(t))
       /\ WF_vars(TaskPurge(t))

SpecCleanFair == SpecClean /\ FairClean

\* The same cache with a cleaner of positive interval, launched MaxSweepers
\* times at most.
NextSweep ==
  \/ Tick(MaxTime)
  \/ \E k \in CleanKeySet : Set(k, 1)
  \/ \E k \in CleanKeySet : now + 1 < MaxTime /\ Expire(k, 1)
  \/ \E i \in SweepArgs : Len(tasks) < MaxSweepers /\ Cleaner(i)
  \/ Close
  \/ \E t \in 1..MaxSweepers : TaskStart(t)
  \/ \E t \in 1..MaxSweepers : TaskSelect(t)
  \/ \E t \in 1..MaxSweepers : TaskTick(t)
  \/ \E t \in 1..MaxSweepers : TaskStop(t)
  \/ \E t \in 1..MaxSweepers : TaskPurge(t)

SpecSweep == InitClean /\ [][NextSweep]_vars

FairSweep ==
  /\ WF_vars(Tick(MaxTime))
  /\ \A t \in 1..MaxSweepers :
       /\ WF_vars(TaskStart(t))
       /\ WF_vars(TaskSelect(t))
       /\ WF_vars(TaskTick(t))
       /\ WF_vars(TaskStop(t))
       /\ WF_vars(TaskPurge(t))

SpecSweepFair == SpecSweep /\ FairSweep

\* ------------------------------------------- Peek, statement by statement
\* Peek holds the lock in shared mode, so several threads can be inside it
\* at once, while every other call modelled here holds the lock in exclusive
\* mode and runs alone. A thread inside Peek is at "get" (RLock taken),
\* or inside removeElement: "check" (list.Remove: e.list == l ?), "unlink"
\* (e.prev.next = e.next; e.next.prev = e.prev), "clear" (e.next, e.prev,
\* e.list = nil), "dec" (l.len--), "delete" (delete(c.items, key)).
\* The element a thread holds is named by its key: no element is made while
\* the lock is held in shared mode.
ThreadAt(th, pc) == threads[th].pc = pc
Goto(th, pc) == threads' = [threads EXCEPT ![th].pc = pc]
Quiescent == \A th \in ThreadIds : ThreadAt(th, "idle")
\* No thread holds the lock and the len field counts the linked elements:
\* a call in exclusive mode can run as the atomic action above.
Exclusive == Quiescent /\ lenSkew = 0
Others(th, key) ==
  \E o \in ThreadIds \ {th} : ~ThreadAt(o, "idle") /\ threads[o].key = key
PeekFrame == UNCHANGED <<size, ttl, now>> /\ UNCHANGED cleanerVars

\* c.mu.RLock()
PeekLock(th, key) ==
  /\ ThreadAt(th, "idle")
  /\ threads' = [threads EXCEPT ![th] = [pc |-> "get", key |-> key]]
  /\ UNCHANGED <<list, items, last, touch, written, lenSkew, cleared>>
  /\ PeekFrame

\* Peek returns (value, found) and releases the lock; the element it held,
\* if it left the list, is forgotten with the last thread that held it.
PeekReturn(th, found, val) ==
  /\ threads' = [threads EXCEPT ![th] = [pc |-> "idle", key |-> NoKey]]
  /\ cleared' = IF Others(th, threads[th].key) THEN cleared
                ELSE cleared \ {threads[th].key}
  /\ last' = Call("Peek", threads[th].key, found, val, 0)

\* get: e, ok := c.items[key], and the expiry check. The element that has
\* left the list was expired when it did.
PeekGet(th) ==
  LET key == threads[th].key IN
  /\ ThreadAt(th, "get")
  /\ IF key \notin DOMAIN items
       THEN PeekReturn(th, FALSE, ZeroValue)
       ELSE IF items[key] # 0 /\ notExpired(list[items[key]], now)
         THEN PeekReturn(th, TRUE, list[items[key]].value)
         ELSE Goto(th, "check") /\ UNCHANGED <<last, cleared>>
  /\ UNCHANGED <<list, items, touch, written, lenSkew>>
  /\ PeekFrame

\* list.Remove: if e.list == l { l.remove(e) }
PeekCheck(th) ==
  /\ ThreadAt(th, "check")
  /\ Goto(th, IF threads[th].key \in cleared THEN "delete" ELSE "unlink")
  /\ UNCHANGED <<list, items, last, touch, written, lenSkew, cleared>>
  /\ PeekFrame

\* l.remove: e.prev.next = e.next; e.next.prev = e.prev. On an element
\* another thread has cleared, e.prev is nil and the statement panics; on
\* one another thread has unlinked and not cleared, it writes what is there.
PeekUnlink(th) ==
  LET key == threads[th].key IN
  /\ ThreadAt(th, "unlink")
  /\ IF key \in cleared
       THEN /\ threads' = [threads EXCEPT
                              ![th] = [pc |-> "idle", key |-> NoKey]]
            /\ cleared' = IF Others(th, key) THEN cleared ELSE cleared \ {key}
            /\ last' = Call("panic", key, FALSE, 0, 0)
            /\ UNCHANGED <<list, items, lenSkew>>
       ELSE /\ Goto(th, "clear")
            /\ list' = ListRemove(C, items[key]).list
            /\ items' = ListRemove(C, items[key]).items
            /\ lenSkew' = IF items[key] # 0 THEN lenSkew + 1 ELSE lenSkew
            /\ UNCHANGED <<last, cleared>>
  /\ UNCHANGED <<touch, written>>
  /\ PeekFrame

\* l.remove: e.next = nil; e.prev = nil; e.list = nil
PeekClear(th) ==
  /\ ThreadAt(th, "clear")
  /\ Goto(th, "dec")
  /\ cleared' = cleared \cup {threads[th].key}
  /\ UNCHANGED <<list, items, last, touch, written, lenSkew>>
  /\ PeekFrame

\* l.remove: l.len--
PeekDec(th) ==
  /\ ThreadAt(th, "dec")
  /\ Goto(th, "delete")
  /\ lenSkew' = lenSkew - 1
  /\ UNCHANGED <<list, items, last, touch, written, cleared>>
  /\ PeekFrame

\* removeElement: delete(c.items, key); then Peek returns not found.
PeekDelete(th) ==
  /\ ThreadAt(th, "delete")
  /\ items' = MapDelete(items, threads[th].key)
  /\ History(MapDelete(items, threads[th].key), NoKey, ZeroValue)
  /\ PeekReturn(th, FALSE, ZeroValue)
  /\ UNCHANGED <<list, lenSkew>>
  /\ PeekFrame

\* Threads calling Set, Expire, Get, Delete, Purge and Peek on a cache of two
\* keys. A call in exclusive mode is not followed further once the len
\* field is out of step with the list.
NextRace ==
  \/ Tick(MaxTime)
  \/ \E k \in RaceKeySet : Exclusive /\ Set(k, 1)
  \/ \E k \in RaceKeySet : Exclusive /\ Expire(k, 1)
  \/ \E k \in RaceKeySet : Exclusive /\ Get(k)
  \/ \E k \in RaceKeySet : Exclusive /\ Delete(k)
  \/ Exclusive /\ Purge
  \/ \E th \in ThreadIds, k \in RaceKeySet : PeekLock(th, k)
  \/ \E th \in ThreadIds : PeekGet(th)
  \/ \E th \in ThreadIds : PeekCheck(th)
  \/ \E th \in ThreadIds : PeekUnlink(th)
  \/ \E th \in ThreadIds : PeekClear(th)
  \/ \E th \in ThreadIds : PeekDec(th)
  \/ \E th \in ThreadIds : PeekDelete(th)

SpecRace == InitClean /\ [][NextRace]_vars

\* The cache with a cleaner of any interval, launched MaxSweepers times at
\* most: with an interval that is not positive the task panics.
NextRestart ==
  \/ Tick(MaxTime)
  \/ \E k \in CleanKeySet : Set(k, 1)
  \/ \E k \in CleanKeySet : now + 1 < MaxTime /\ Expire(k, 1)
  \/ \E i \in IntervalArgs : Len(tasks) < MaxSweepers /\ Cleaner(i)
  \/ Close
  \/ \E t \in 1..MaxSweepers : TaskStart(t)
  \/ \E t \in 1..MaxSweepers : TaskSelect(t)
  \/ \E t \in 1..MaxSweepers : TaskTick(t)
  \/ \E t \in 1..MaxSweepers : TaskStop(t)
  \/ \E t \in 1..MaxSweepers : TaskPurge(t)

SpecRestart == InitClean /\ [][NextRestart]_vars

\* ------------------------------------------------- the NewLru variant
\* The variant without expiry adds Put and Take to Set and Get; here its
\* entries are those of a cache whose default TTL stays zero.

\* Mutant: Put of a stored key moves its entry to the front.
put_promotes(c, key, value, cap) ==
  IF key \in DOMAIN c.items
    THEN LET e  == c.items[key]
             c1 == [c EXCEPT !.list[e] = Entry(key, value, 0)]
         IN  MoveToFront(c1, e)
    ELSE LET c1 == PushFront(c, Entry(key, value, 0))
             c2 == [c1 EXCEPT !.items = MapSet(c1.items, key, 1)]
         IN  IF Len(c2.list) > cap THEN removeOldest(c2) ELSE c2

\* Put: the value of a stored key is replaced where its entry is; a new key
\* goes to the front and the back entry is evicted on overflow.
put(c, key, value, cap) ==
  IF key \in DOMAIN c.items
    THEN LET e == c.items[key]
         IN  [c EXCEPT !.list[e] = Entry(key, value, 0)]
    ELSE LET c1 == PushFront(c, Entry(key, value, 0))
             c2 == [c1 EXCEPT !.items = MapSet(c1.items, key, 1)]
         IN  IF Len(c2.list) > cap THEN removeOldest(c2) ELSE c2

\* Take: the value of a stored key, the cache left as it is.
take(c, key) ==
  IF key \in DOMAIN c.items
    THEN [c |-> c, value |-> c.list[c.items[key]].value, found |-> TRUE]
    ELSE [c |-> c, value |-> ZeroValue, found |-> FALSE]

Put(key, value) ==
  LET c1 == put(C, key, value, size) IN
  /\ Return(c1, "Put", key, key \in DOMAIN items, value)
  /\ IF key \in DOMAIN items
       THEN /\ touch' = touch
            /\ written' = [written EXCEPT ![key] = value]
       ELSE History(c1.items, key, value)
  /\ UNCHANGED <<size, ttl, now>>

Take(key) ==
  LET r == take(C, key) IN
  /\ Return(r.c, "Take", key, r.found, r.value)
  /\ History(r.c.items, NoKey, ZeroValue)
  /\ UNCHANGED <<size, ttl, now>>

\* NewLru(n) and then any calls of Set, Get, Put and Take.
NextLru ==
  \/ \E k \in KeySet, v \in ValueSet : Set(k, v)
  \/ \E k \in KeySet : Get(k)
  \/ \E k \in KeySet, v \in ValueSet : Put(k, v)
  \/ \E k \in KeySet : Take(k)

SpecLru == Init /\ [][NextLru]_vars

\* New, then Cleaner with any interval, MaxTasks times at most, and Close in
\* any order, with the steps of the tasks launched.
NextChan ==
  \/ \E i \in IntervalArgs : Len(tasks) < MaxTasks /\ Cleaner(i)
  \/ Close
  \/ \E t \in 1..MaxTasks : TaskStart(t)
  \/ \E t \in 1..MaxTasks : TaskSelect(t)
  \/ \E t \in 1..MaxTasks : TaskTick(t)
  \/ \E t \in 1..MaxTasks : TaskStop(t)
  \/ \E t \in 1..MaxTasks : TaskPurge(t)

SpecChan == InitClean /\ [][NextChan]_vars

\* A goroutine that can take its next step takes it, and the ticker of a
\* waiting task fires.
FairChan ==
  \A t \in 1..MaxTasks :
    /\ WF_vars(TaskStart(t))
    /\ WF_vars(TaskSelect(t))
    /\ WF_vars(TaskTick(t))
    /\ WF_vars(TaskStop(t))
    /\ WF_vars(TaskPurge(t))

SpecChanFair == SpecChan /\ FairChan

\* ---------------------------------------------------------------- handles
\* The default TTLs given: negative, zero and positive.
HandleTTLArgs == {-1, 0, 1}

\* A thread that has called Set keeps the entryOption returned, a key and
\* the cache, until its next Set: pc "handle". The history value "stale" of
\* the pc tells that, since, another Set stored the key anew after its entry
\* had been removed. The step record of a Set holds the expiry of the entry
\* it wrote over (0: none).
Holds(th) == threads[th].pc \in {"handle", "stale"}

\* Set(key, value) called by thread th, which keeps the handle.
SetBy(th, key, value) ==
  LET c1 == set(C, key, value, size, ttl, now) IN
  /\ threads[th].pc \in {"idle", "handle", "stale"}
  /\ list' = c1.list
  /\ items' = c1.items
  /\ last' = Call("Set", key, key \in DOMAIN items,
                  [th |-> th, v |-> value,
                   old |-> IF key \in DOMAIN items
                             THEN list[items[key]].expireAt ELSE 0],
                  Cardinality((DOMAIN items) \ (DOMAIN c1.items)))
  /\ History(c1.items, key, value)
  /\ threads' = [u \in ThreadIds |->
                   IF u = th THEN [pc |-> "handle", key |-> key]
                   ELSE IF Holds(u) /\ threads[u].key = key
                           /\ key \notin DOMAIN items
                     THEN [pc |-> "stale", key |-> key]
                   ELSE threads[u]]
  /\ UNCHANGED <<size, ttl, now, lenSkew, cleared>>
  /\ UNCHANGED cleanerVars

\* Mutant: the handle refers to the entry it was returned for, and Expire
\* does nothing once that entry has left the cache.
ExpireBy_entry(th, duration) ==
  LET key == threads[th].key
      c1  == IF ThreadAt(th, "stale") THEN C ELSE expire(C, key, duration, now)
  IN
  /\ Holds(th)
  /\ list' = c1.list
  /\ items' = c1.items
  /\ last' = Call("Expire", key, key \in DOMAIN items,
                  [th |-> th, d |-> duration], 0)
  /\ History(c1.items, NoKey, ZeroValue)
  /\ UNCHANGED <<size, ttl, now>>
  /\ UNCHANGED cleanerVars
  /\ UNCHANGED raceVars

\* Expire(duration) called by thread th on the handle it keeps.
ExpireBy(th, duration) ==
  LET key == threads[th].key
      c1  == expire(C, key, duration, now)
  IN
  /\ Holds(th)
  /\ list' = c1.list
  /\ items' = c1.items
  /\ last' = Call("Expire", key, key \in DOMAIN items,
                  [th |-> th, d |-> duration], 0)
  /\ History(c1.items, NoKey, ZeroValue)
  /\ UNCHANGED <<size, ttl, now>>
  /\ UNCHANGED cleanerVars
  /\ UNCHANGED raceVars

\* Threads call Set and, at any later time, Expire on the handle; between
\* the two the default TTL changes, time passes and the keys are read and
\* deleted.
NextHandle ==
  \/ Tick(MaxTime)
  \/ \E d \in HandleTTLArgs : TTL(d)
  \/ \E th \in ThreadIds, k \in RaceKeySet, v \in ValueSet :
       Horizon(ttl) /\ SetBy(th, k, v)
  \/ \E th \in ThreadIds, d \in TTLArgs : Horizon(d) /\ ExpireBy(th, d)
  \/ \E k \in RaceKeySet : Get(k)
  \/ \E k \in RaceKeySet : Delete(k)

SpecHandle == InitClean /\ [][NextHandle]_vars

\* ------------------------------------------------------------- the guard
\* c.mu, a sync.RWMutex, is held by the threads whose pc says so. A thread
\* is "idle" outside any call, "Lock" or "RLock" while blocked in the call
\* of that name, "locked" or "rlocked" between the return of that call and
\* the deferred Unlock or RUnlock that ends the body.
Writers == {th \in ThreadIds : ThreadAt(th, "locked")}
Readers == {th \in ThreadIds : ThreadAt(th, "rlocked")}
Pending == {th \in ThreadIds : ThreadAt(th, "Lock")}
\* A cleaner task that has taken a tick is in Purge, blocked in c.mu.Lock().
PendingPurge ==
  \E t \in 1..Len(tasks) : tasks[t].pc = "tick"

\* The key the bodies write, read and delete.
LockKeySet == {"a"}

\* No thread holds the mutex: a caller outside ThreadIds, or the cleaner
\* task in Purge, takes it, runs its body and releases it in one step.
MuFree == Writers = {} /\ Readers = {}

\* What a body under the exclusive lock leaves of list and items: Set, Get,
\* Delete, Purge and Clear; Expire, TTL and SetCapacity with a capacity not
\* below the size leave them as they are.
ExclusiveBodies ==
  {set(C, k, 1, size, ttl, now) : k \in LockKeySet}
    \cup {get(C, k, TRUE, now).c : k \in LockKeySet}
    \cup {IF k \in DOMAIN items THEN removeElement(C, items[k]) ELSE C :
            k \in LockKeySet}
    \cup {purge(C, now).c, [list |-> <<>>, items |-> EmptyMap], C}

\* What a body under the shared lock leaves: Peek; Keys, Range, Size and
\* Capacity leave list and items as they are.
SharedBodies ==
  {get(C, k, FALSE, now).c : k \in LockKeySet} \cup {C}

LockFrame ==
  /\ UNCHANGED <<list, items, size, ttl, now, touch, written, lenSkew,
                 cleared>>
  /\ UNCHANGED cleanerVars

\* A thread calls a method that begins with c.mu.Lock().
Lock(th) ==
  /\ ThreadAt(th, "idle")
  /\ Goto(th, "Lock")
  /\ last' = Call("Lock", NoKey, FALSE, th, 0)
  /\ LockFrame

\* c.mu.Lock() returns: no reader and no writer holds the mutex.
Locked(th) ==
  /\ ThreadAt(th, "Lock")
  /\ MuFree
  /\ Goto(th, "locked")
  /\ last' = Call("Locked", NoKey, FALSE, th, 0)
  /\ LockFrame

\* Mutant: the body ends and the mutex is not unlocked.
Unlock_missing(th) ==
  /\ ThreadAt(th, "locked")
  /\ \E c1 \in ExclusiveBodies :
       /\ list' = c1.list
       /\ items' = c1.items
       /\ History(c1.items, NoKey, ZeroValue)
  /\ last' = Call("Unlock", NoKey, FALSE, th, 0)
  /\ UNCHANGED <<size, ttl, now>>
  /\ UNCHANGED cleanerVars
  /\ UNCHANGED raceVars

\* The body of the method runs and its deferred c.mu.Unlock(), which hands
\* the mutex to the readers blocked in RLock before any other writer.
Unlock(th) ==
  /\ ThreadAt(th, "locked")
  /\ \E c1 \in ExclusiveBodies :
       /\ list' = c1.list
       /\ items' = c1.items
       /\ History(c1.items, NoKey, ZeroValue)
  /\ threads' = [u \in ThreadIds |->
                   IF u = th THEN [threads[u] EXCEPT !.pc = "idle"]
                   ELSE IF ThreadAt(u, "RLock")
                     THEN [threads[u] EXCEPT !.pc = "rlocked"]
                   ELSE threads[u]]
  /\ last' = Call("Unlock", NoKey, FALSE, th, 0)
  /\ UNCHANGED <<size, ttl, now, lenSkew, cleared>>
  /\ UNCHANGED cleanerVars

\* A thread calls a method that begins with c.mu.RLock().
RLock(th) ==
  /\ ThreadAt(th, "idle")
  /\ Goto(th, "RLock")
  /\ last' = Call("RLock", NoKey, FALSE, th, 0)
  /\ LockFrame

\* c.mu.RLock() returns: no writer holds the mutex and none is blocked in
\* Lock, be it a thread or the cleaner task in Purge (a blocked writer holds
\* back the readers that come after it).
RLocked(th) ==
  /\ ThreadAt(th, "RLock")
  /\ Writers = {} /\ Pending = {} /\ ~PendingPurge
  /\ Goto(th, "rlocked")
  /\ last' = Call("RLocked", NoKey, FALSE, th, 0)
  /\ LockFrame

\* The body of the method runs and its deferred c.mu.RUnlock(); a visitor
\* of Range returns and calls no method of the cache.
RUnlock(th) ==
  /\ ThreadAt(th, "rlocked")
  /\ \E c1 \in SharedBodies :
       /\ list' = c1.list
       /\ items' = c1.items
       /\ History(c1.items, NoKey, ZeroValue)
  /\ Goto(th, "idle")
  /\ last' = Call("RUnlock", NoKey, FALSE, th, 0)
  /\ UNCHANGED <<size, ttl, now, lenSkew, cleared>>
  /\ UNCHANGED cleanerVars

\* The Purge of the cleaner task: c.mu.Lock() returns, the body runs, and
\* the deferred Unlock hands the mutex to the readers blocked in RLock.
TaskPurgeLocked(t) ==
  /\ IsTask(t) /\ tasks[t].pc = "tick"
  /\ MuFree
  /\ LET r == purge(C, now) IN
       /\ list' = r.c.list
       /\ items' = r.c.items
       /\ History(r.c.items, NoKey, ZeroValue)
       /\ last' = Call("cleanerPurge", NoKey, FALSE, r.count,
                       Cardinality((DOMAIN items) \ (DOMAIN r.c.items)))
  /\ tasks' = [tasks EXCEPT ![t].pc = "loop"]
  /\ threads' = [u \in ThreadIds |->
                   IF ThreadAt(u, "RLock")
                     THEN [threads[u] EXCEPT !.pc = "rlocked"]
                     ELSE threads[u]]
  /\ UNCHANGED <<cleanerStopCh, cleanerInterval, chanClosed, finalizer>>
  /\ UNCHANGED <<size, ttl, now, lenSkew, cleared>>

\* Threads call the methods of the cache; Cleaner and Close are called from
\* outside them; the cleaner task runs, its Purge waiting for the mutex.
NextLock ==
  \/ \E th \in ThreadIds : Lock(th)
  \/ \E th \in ThreadIds : Locked(th)
  \/ \E th \in ThreadIds : Unlock(th)
  \/ \E th \in ThreadIds : RLock(th)
  \/ \E th \in ThreadIds : RLocked(th)
  \/ \E th \in ThreadIds : RUnlock(th)
  \/ \E i \in SweepArgs : MuFree /\ Len(tasks) < MaxSweepers /\ Cleaner(i)
  \/ MuFree /\ Close
  \/ \E t \in 1..MaxSweepers : TaskStart(t)
  \/ \E t \in 1..MaxSweepers : TaskSelect(t)
  \/ \E t \in 1..MaxSweepers : TaskTick(t)
  \/ \E t \in 1..MaxSweepers : TaskStop(t)
  \/ \E t \in 1..MaxSweepers : TaskPurgeLocked(t)

SpecLock == InitClean /\ [][NextLock]_vars

\* A goroutine that can run runs. A goroutine blocked in Lock or RLock gets
\* the mutex if it is free again and again: the mutex hands itself to a
\* waiter that has waited long, and a blocked writer holds back new readers.
FairLock ==
  /\ \A th \in ThreadIds :
       /\ SF_vars(Locked(th))
       /\ SF_vars(RLocked(th))
       /\ WF_vars(Unlock(th))
       /\ WF_vars(RUnlock(th))
  /\ \A t \in 1..MaxSweepers :
       /\ WF_vars(TaskStart(t))
       /\ WF_vars(TaskSelect(t))
       /\ WF_vars(TaskTick(t))
       /\ WF_vars(TaskStop(t))
       /\ SF_vars(TaskPurgeLocked(t))

SpecLockFair == SpecLock /\ FairLock

\* -------------------------------------------------------------- iteration
\* Keys(): the slice returned is the value of the step record.
CallKeys ==
  /\ last' = Call("Keys", NoKey, FALSE, Keys, 0)
  /\ UNCHANGED <<list, items, size, ttl, now, touch, written>>
  /\ UNCHANGED cleanerVars
  /\ UNCHANGED raceVars

\* Range(fn): the step record holds the visitor and the calls made of it.
Range(stop) ==
  /\ last' = Call("Range", NoKey, FALSE,
                  [stop |-> stop, calls |-> visit(list, now, stop)], 0)
  /\ UNCHANGED <<list, items, size, ttl, now, touch, written>>
  /\ UNCHANGED cleanerVars
  /\ UNCHANGED raceVars

\* Entries are written, given expiries, promoted and left to expire, and
\* the cache is iterated.
NextIter ==
  \/ Tick(MaxTime)
  \/ \E k \in KeySet, v \in ValueSet : Set(k, v)
  \/ \E k \in KeySet : Horizon(1) /\ Expire(k, 1)
  \/ \E k \in KeySet : Get(k)
  \/ CallKeys
  \/ \E stop \in SUBSET KeySet : Range(stop)

SpecIter == InitClean /\ [][NextIter]_vars

\* ---------------------------------------------------------------- claims
\* The position of key k in the recency order, and whether k is stored.
Pos(k) == CHOOSE i \in 1..Len(list) : list[i].key = k
IsStored(k) == k \in DOMAIN items
NoExpiry == \A i \in 1..Len(list) : IsZero(list[i].expireAt)
\* The stored entry of k is served at the present instant: it has no expiry,
\* or the present is strictly before its expiry.
Live(k) == list[Pos(k)].expireAt = 0 \/ now < list[Pos(k)].expireAt

\* C1: after every completed call, in any sequence starting from New(n), the
\* number of stored entries Size() is at most Capacity().
C1_CapacityInvariant == Size <= Capacity

\* C1 witness: a Set that had to evict has just returned and the cache is full.
C1_Witness ==
  /\ last.op = "Set" /\ last.removed = 1
  /\ Size = Capacity /\ Size = MaxCap

\* C2: Set(k, v) of a key that is not stored, on a full cache, removes exactly
\* the entry at the back of the recency order and keeps every other entry;
\* on a cache that is not full it removes nothing.
C2_EvictionCorrectness ==
  [][(last'.op = "Set" /\ ~IsStored(last'.key)) =>
       /\ list'[1].key = last'.key
       /\ IF Size = Capacity
            THEN /\ Tail(list') = SubSeq(list, 1, Len(list) - 1)
                 /\ DOMAIN items' =
                      ((DOMAIN items) \ {list[Len(list)].key}) \cup {last'.key}
                 /\ Size' = Size
            ELSE /\ Tail(list') = list
                 /\ DOMAIN items' = (DOMAIN items) \cup {last'.key}
                 /\ Size' = Size + 1]_vars

\* C2 witness: a Set has evicted one entry and another one survived it.
C2_Witness ==
  /\ last.op = "Set" /\ last.removed = 1
  /\ Len(list) >= 2 /\ list[1].key = last.key

\* C3: when no entry has an expiry, Keys() lists the stored keys by their
\* most recent promoting touch (Set, or Get that found the key), most recent
\* first; so Set(a); Set(b); Set(c) gives [c, b, a] and Get(a) then [a, c, b].
C3_RecencyOrdering == NoExpiry => Keys = touch

\* C3 witness: the scenario's end, Get(a) after a, b and c were set in turn.
C3_Witness ==
  /\ last.op = "Get" /\ last.key = "a" /\ last.found
  /\ NoExpiry /\ Keys = <<"a", "c", "b">>

\* C4: Get(k) of a stored, non-expired key returns (v, true), v the value of
\* the last Set of k, and moves k to the front; the other entries keep their
\* order, values and expiries, and Size() is unchanged.
C4_GetPromotes ==
  [][(last'.op = "Get" /\ IsStored(last'.key) /\ Live(last'.key)) =>
       /\ last'.found
       /\ last'.val = written[last'.key]
       /\ list' = <<list[Pos(last'.key)]>> \o RemoveAt(list, Pos(last'.key))
       /\ DOMAIN items' = DOMAIN items
       /\ Size' = Size]_vars

\* C4 witness: a Get has found its key in a cache of three entries and
\* returned the value 2, and the key is at the front.
C4_Witness ==
  /\ last.op = "Get" /\ last.found /\ last.val = 2
  /\ Len(list) = 3 /\ list[1].key = last.key

\* C5: Set(k, v) of a stored key writes v and moves k to the front; Size()
\* is unchanged, nothing is evicted, and the other entries keep their order.
C5_SetPromotes ==
  [][(last'.op = "Set" /\ IsStored(last'.key)) =>
       /\ list'[1].key = last'.key
       /\ list'[1].value = last'.val
       /\ Tail(list') = RemoveAt(list, Pos(last'.key))
       /\ DOMAIN items' = DOMAIN items
       /\ Size' = Size]_vars

\* C5 witness: a Set has overwritten a stored key of a full cache with the
\* value 2, evicting nothing, and the key is at the front.
C5_Witness ==
  /\ last.op = "Set" /\ last.found /\ last.removed = 0
  /\ Size = Capacity /\ Len(list) >= 2
  /\ list[1].key = last.key /\ list[1].value = 2

\* C6: Peek(k) of a stored, non-expired key returns (value, true) and leaves
\* the whole cache as it was: order, values, expiries and size.
C6_PeekFrame ==
  [][(last'.op = "Peek" /\ IsStored(last'.key) /\ Live(last'.key)) =>
       /\ last'.found
       /\ last'.val = list[Pos(last'.key)].value
       /\ UNCHANGED <<list, items, size, ttl>>]_vars

\* C6 witness: a Peek has found the key at the back of a full cache, which
\* is still at the back: the next overflowing Set evicts it.
C6_Witness ==
  /\ last.op = "Peek" /\ last.found
  /\ Size = Capacity /\ Len(list) >= 2
  /\ list[Len(list)].key = last.key

\* C7: an entry written with a positive duration d expires at the write time
\* plus d; Get and Peek find a stored entry at every instant strictly before
\* its expiry and report it not found at every instant from its expiry on;
\* an entry without expiry is found whenever it is stored.
C7_TTLExpiry ==
  [][/\ (last'.op \in {"Get", "Peek"} /\ IsStored(last'.key)) =>
          (last'.found <=> Live(last'.key))
     /\ (last'.op = "Set" /\ ~IsStored(last'.key)) =>
          list'[1].expireAt = (IF ttl > 0 THEN now + ttl ELSE 0)]_vars

\* C7 witness: a Peek has found an entry one instant before its expiry, which
\* with durations of two instants is one instant after it was written.
C7_Witness ==
  /\ last.op = "Peek" /\ last.found
  /\ list[Pos(last.key)].expireAt = now + 1

\* C8: Get(k) or Peek(k) of a stored key whose entry is expired returns
\* found = false and removes that entry and no other: k leaves the index,
\* Size() drops by one, the other entries keep their order.
C8_LazyExpiry ==
  [][(last'.op \in {"Get", "Peek"} /\ IsStored(last'.key)
        /\ ~Live(last'.key)) =>
       /\ ~last'.found
       /\ last'.val = ZeroValue
       /\ list' = RemoveAt(list, Pos(last'.key))
       /\ DOMAIN items' = (DOMAIN items) \ {last'.key}
       /\ Size' = Size - 1]_vars

\* C8 witness: a Peek has removed its expired entry and another entry stays.
C8_Witness ==
  /\ last.op = "Peek" /\ ~last.found /\ last.removed = 1
  /\ Len(list) >= 1

\* C9 as stated: Set of a stored key leaves an entry without expiry without
\* expiry, and replaces a finite expiry by the time of the Set plus the
\* current default TTL.
C9_AsStated ==
  [][(last'.op = "Set" /\ IsStored(last'.key)) =>
       list'[1].expireAt =
         (IF IsZero(list[Pos(last'.key)].expireAt) THEN 0 ELSE now + ttl)]_vars

\* C9 amended: Set of a stored key leaves an entry without expiry without
\* expiry, also under a positive default TTL; it replaces a finite expiry by
\* the time of the Set plus the default TTL when that TTL is positive, and
\* removes the expiry when the default TTL is zero or negative.
C9_RenewOnTouch ==
  [][(last'.op = "Set" /\ IsStored(last'.key)) =>
       list'[1].expireAt =
         (IF IsZero(list[Pos(last'.key)].expireAt) THEN 0
          ELSE IF ttl > 0 THEN now + ttl ELSE 0)]_vars

\* C9 witness: under a positive default TTL, a Set of a stored key has
\* renewed its expiry at an instant later than the cache's first.
C9_Witness ==
  /\ last.op = "Set" /\ last.found
  /\ ttl > 0 /\ now > 1 /\ list[1].expireAt = now + ttl

\* C10: Expire(d) on the handle of a stored key removes the entry's expiry
\* when d <= 0 and sets it to the time of the call plus d when d > 0,
\* whatever the expiry was; value and position are unchanged. (The step
\* record holds no duration: the step is an Expire(d) step for each d whose
\* Expire leaves the list the step left.)
C10_ExpireOverride ==
  [][(last'.op = "Expire" /\ IsStored(last'.key)) =>
       \A d \in ExpireArgs :
         (list' = expire(C, last'.key, d, now).list) =>
           /\ list' = [list EXCEPT ![Pos(last'.key)].expireAt =
                         IF d > 0 THEN now + d ELSE 0]
           /\ items' = items]_vars

\* C10 witness: under a positive default TTL, an Expire has left a stored
\* entry that is not at the front without expiry.
C10_Witness ==
  /\ last.op = "Expire" /\ last.found /\ ttl > 0
  /\ Pos(last.key) > 1 /\ IsZero(list[Pos(last.key)].expireAt)

\* An entry whose expiry lies in the past of instant t.
Past(item, t) == item.expireAt # 0 /\ item.expireAt < t
Kept(item) == ~Past(item, now)

C12_PurgeRemovesAllExpired ==
  (last.op = "Purge") =>
    /\ \A k \in DOMAIN items : get(C, k, FALSE, now).found
    /\ Size = Len(Keys)

\* C18: Size() returns the number of stored entries that are not expired at
\* the time of the call: Size() equals the length of Keys() taken at the same
\* instant.
C18_SizeIsLiveCount == Size = Len(Keys)

\* C19: SetCapacity(n) with 0 < n < Size() removes entries from the back of
\* the recency order until Size() = n: the survivors are exactly the n most
\* recently used entries, in unchanged relative order with unchanged values;
\* with n >= Size() no entry is removed or reordered. In both cases
\* Capacity() = n afterwards.
C19_SetCapacity ==
  [][(last'.op = "SetCapacity" /\ last'.val > 0) =>
       LET n == last'.val IN
       /\ Capacity' = n
       /\ (n < Size => /\ Size' = n
                       /\ list' = SubSeq(list, 1, n)
                       /\ DOMAIN items' = {list[i].key : i \in 1..n})
       /\ (n >= Size => list' = list /\ items' = items)]_vars

\* C19 witness: SetCapacity(1) has just cut a cache of several entries down
\* to its most recently used one.
C19_Witness ==
  /\ last.op = "SetCapacity" /\ last.val = 1 /\ last.removed >= 2
  /\ Size = 1 /\ touch = <<list[1].key>>

\* C20: New(n) and SetCapacity(n) with n <= 0 yield Capacity() = 10
\* (DefaultCacheSize) and with n > 0 yield Capacity() = n, without reporting
\* an error; hence Capacity() > 0 in every reachable state.
C20_CapacityNormalized ==
  /\ Capacity > 0
  /\ (last.op \in {"New", "SetCapacity"} =>
        Capacity = IF last.val <= 0 THEN 10 ELSE last.val)

\* C20 witness: SetCapacity with a size that is not positive has returned on
\* a cache that was built with a positive one and holds entries.
C20_Witness ==
  /\ last.op = "SetCapacity" /\ last.val <= 0 /\ Capacity = 10 /\ Size > 0

\* Task t is at pc; it has returned; Close has returned, Cleaner has been
\* called again, since it was launched.
TaskAt(t, pc) == IF IsTask(t) THEN tasks[t].pc = pc ELSE FALSE
Done(t) == TaskAt(t, "done")
AfterClose(t) == IF IsTask(t) THEN tasks[t].afterClose ELSE FALSE
Replaced(t) == IF IsTask(t) THEN tasks[t].replaced ELSE FALSE

\* C14: once Close() has returned, each cleaner task launched before it
\* eventually terminates, and takes no further tick: it invokes Purge at
\* most for a tick it had already taken, wherever in its loop it was when
\* Close ran.
C14_CloseStopsCleaner ==
  /\ \A t \in 1..MaxTasks : [](AfterClose(t) => <>Done(t))
  /\ [][\A t \in 1..MaxTasks :
          (AfterClose(t) /\ TaskAt(t, "wait")) => ~TaskAt(t, "tick")']_vars

\* C15: after a further call of Cleaner on a cache whose cleaner is running,
\* each task launched before that call eventually terminates, so that
\* eventually at most one cleaner task is alive, for every interleaving of
\* the old task with the call.
C15_CleanerReplaces ==
  \A t \in 1..MaxTasks : [](Replaced(t) => <>Done(t))

\* C16: Close() on a cache that never started a cleaner, and Close() called
\* two or more times in a row, does not fail; the cache is left without stop
\* channel and with its entries untouched, and a second Close leaves every
\* field as the first left it.
C16_CloseIdempotent ==
  [][Close =>
       /\ last'.op = "Close"
       /\ cleanerStopCh' = NilCh
       /\ UNCHANGED <<list, items, size, ttl>>
       /\ (last.op = "Close" =>
             UNCHANGED <<cleanerStopCh, cleanerInterval, chanClosed,
                         finalizer, tasks>>)]_vars

\* C16 witness: a second Close in a row has returned on a cache that holds an
\* entry and never started a cleaner.
C16_Witness ==
  /\ last.op = "Close" /\ last.val = 2
  /\ tasks = <<>> /\ Size > 0 /\ cleanerStopCh = NilCh

\* A cleaner task whose ticker exists and that has not returned.
Running ==
  \E t \in 1..Len(tasks) : tasks[t].pc \in {"loop", "wait", "tick"}
\* Key k is stored and a read at this instant treats it as expired.
Expired(k) == IsStored(k) /\ ~Live(k)

\* C17: while a cleaner task with a positive interval is running, every
\* stored entry that is expired is eventually removed (or written anew)
\* without any read, under fair scheduling of the clock, the ticker and the
\* task; and a Purge of the cleaner removes no entry without expiry.
C17_ActiveSweeping ==
  /\ \A k \in CleanKeySet :
       [](Running /\ Expired(k) => <>(~Expired(k) \/ ~Running))
  /\ [][last'.op = "cleanerPurge" =>
          \A i \in 1..Len(list) :
            IsZero(list[i].expireAt) =>
              \E j \in 1..Len(list') : list'[j] = list[i]]_vars

\* C17 witness: a Purge of the cleaner has removed one entry and left the
\* entry without expiry.
C17_Witness ==
  /\ last.op = "cleanerPurge" /\ last.val = 1
  /\ Size = 1 /\ IsZero(list[1].expireAt)

\* The recency order as a call sees it: Front() is nil when the len field is
\* 0, and is the sentinel of the ring, an element without entry, when the
\* ring is empty and the len field is not 0.
Order ==
  IF Size = 0 THEN <<>>
  ELSE IF list = <<>>
    THEN <<[key |-> NoKey, value |-> ZeroValue, expireAt |-> 0]>>
  ELSE list

\* C13: for any interleaving of Set, Get, Peek, Delete, Expire and Purge
\* issued by several threads, whenever no call is running no key is stored
\* twice, every index entry has its list entry and every list entry its
\* index entry, and Size() <= Capacity().
C13_ConcurrentSafety ==
  Quiescent =>
    /\ \A i, j \in 1..Len(Order) : Order[i].key = Order[j].key => i = j
    /\ \A k \in DOMAIN items : \E i \in 1..Len(Order) : Order[i].key = k
    /\ \A i \in 1..Len(Order) : Order[i].key \in DOMAIN items
    /\ Size <= Capacity

\* C21: Delete(k) returns true exactly when k is stored before the call;
\* afterwards k is not stored and a Get(k) reports not found, Size() has
\* decreased by 1 when true was returned, and all other entries keep their
\* values, expiries and relative order.
C21_Delete ==
  [][(last'.op = "Delete") =>
       LET k == last'.key IN
       /\ last'.found = IsStored(k)
       /\ k \notin DOMAIN items'
       /\ ~get([list |-> list', items |-> items'], k, TRUE, now).found
       /\ (last'.found =>
             /\ Size' = Size - 1
             /\ list' = RemoveAt(list, Pos(k))
             /\ DOMAIN items' = (DOMAIN items) \ {k})
       /\ (~last'.found => list' = list /\ items' = items)]_vars

\* C21 witness: Delete has returned true for one of three entries.
C21_Witness ==
  /\ last.op = "Delete" /\ last.found /\ Len(list) = 2
  /\ touch = <<list[1].key, list[2].key>>
  /\ last.key \notin {list[1].key, list[2].key}
  /\ last.removed = 1

\* C22: Clear() leaves the cache with Size() = 0 and every key not found,
\* leaves Capacity() and the default TTL unchanged, and the cache remains
\* usable: a following Set(x, v) then Get(x) returns (v, true).
C22_Clear ==
  [][(last'.op = "Clear") =>
       LET c1 == [list |-> list', items |-> items'] IN
       /\ Size' = 0 /\ list' = <<>> /\ items' = EmptyMap
       /\ \A k \in KeySet : ~get(c1, k, TRUE, now').found
       /\ Capacity' = Capacity /\ ttl' = ttl
       /\ \A x \in KeySet, v \in ValueSet :
            LET r == get(set(c1, x, v, size', ttl', now'), x, TRUE, now')
            IN  r.found /\ r.value = v]_vars

\* C22 witness: Clear has emptied a full cache of capacity 2 that has a
\* default TTL.
C22_Witness ==
  /\ last.op = "Clear" /\ last.removed = 2 /\ Capacity = 2 /\ ttl > 0
  /\ Size = 0

\* The entries a read serves at the present instant, in list order.
LiveEntry(item) == item.expireAt = 0 \/ now < item.expireAt
LiveList == SelectSeq(list, LiveEntry)

\* C23: Keys() returns exactly the stored keys that are not expired at the
\* time of the call, each once, most recently used first, and has no side
\* effect: it removes no entry, expired or not, and changes no order.
C23_Keys ==
  [][(last'.op = "Keys") =>
       /\ last'.val = [i \in 1..Len(LiveList) |-> LiveList[i].key]
       /\ \A i, j \in 1..Len(last'.val) :
            last'.val[i] = last'.val[j] => i = j
       /\ UNCHANGED <<list, items, size, ttl, now>>]_vars

\* C23 witness: Keys has returned two keys of a cache of three entries, the
\* expired one being between them.
C23_Witness ==
  /\ last.op = "Keys" /\ Len(list) = 3 /\ ~LiveEntry(list[2])
  /\ last.val = <<list[1].key, list[3].key>>

\* C24: Range(fn) calls fn on the entries that are not expired, front to
\* back, with their current values, and stops right after the first call in
\* which fn returns false: the calls are the prefix of the live sequence up
\* to and including that entry, and all of it if fn always returns true;
\* Range does not change the cache.
C24_Range ==
  [][(last'.op = "Range") =>
       LET calls == last'.val.calls
           stop  == last'.val.stop
           n     == Len(calls)
       IN
       /\ n <= Len(LiveList)
       /\ \A i \in 1..n : calls[i] = <<LiveList[i].key, LiveList[i].value>>
       /\ \A i \in 1..(n - 1) : LiveList[i].key \notin stop
       /\ (n < Len(LiveList) => n >= 1 /\ LiveList[n].key \in stop)
       /\ UNCHANGED <<list, items, size, ttl, now>>]_vars

\* C24 witness: Range has skipped the expired entry at the front, called fn
\* on the second entry with the value 2, where fn returned false, and left
\* the live third entry unvisited.
C24_Witness ==
  /\ last.op = "Range" /\ Len(list) = 3
  /\ ~LiveEntry(list[1]) /\ LiveEntry(list[3])
  /\ last.val.calls = <<(<<list[2].key, 2>>)>>

\* C25: a Get, Peek or Delete of a key that is not stored reports not found
\* (a read returns the zero value) and leaves list, index, capacity and TTL
\* unchanged, and no call ends in a panic.
C25_MissingKey ==
  [][/\ (/\ last' # last
         /\ last'.op \in {"Get", "Peek", "Delete"}
         /\ ~IsStored(last'.key)) =>
          /\ ~last'.found
          /\ last'.val = ZeroValue
          /\ UNCHANGED <<list, items, size, ttl>>
     /\ last'.op # "panic"]_vars

\* C25, its first half alone.
C25_MissingKeyOnly ==
  [][(/\ last' # last
      /\ last'.op \in {"Get", "Peek", "Delete"}
      /\ ~IsStored(last'.key)) =>
       /\ ~last'.found
       /\ last'.val = ZeroValue
       /\ UNCHANGED <<list, items, size, ttl>>]_vars

\* C26: an Expire(d), whatever d, on a handle whose key is not stored any
\* more returns normally and leaves the cache unchanged: no entry is
\* created and no entry's expiry, value or position changes.
C26_HandleNoOp ==
  [][(last'.op = "Expire" /\ ~IsStored(last'.key)) =>
       /\ ~last'.found
       /\ UNCHANGED <<list, items, size, ttl>>]_vars

\* C26 witness: Expire has been called on the handle of a key that is not
\* stored while the cache is full with the two other keys, one of which
\* has an expiry.
C26_Witness ==
  /\ last.op = "Expire" /\ ~IsStored(last.key)
  /\ Capacity = 2 /\ Len(list) = 2
  /\ list[1].expireAt # 0 /\ list[2].expireAt = 0

\* C29: whenever no call is in progress, a key is in the index if and only
\* if exactly one entry of the list has that key, the index maps each key
\* to that entry, and the index and the list have the same number of
\* entries, at most the capacity; this after any sequence of Set, Expire,
\* Get, Peek, Delete, Purge, Clear and SetCapacity.
C29_IndexOrderConsistency ==
  /\ \A k \in KeySet :
       k \in DOMAIN items <=>
         Cardinality({i \in 1..Len(list) : list[i].key = k}) = 1
  /\ \A k \in DOMAIN items :
       items[k] \in 1..Len(list) /\ list[items[k]].key = k
  /\ Cardinality(DOMAIN items) = Len(list)
  /\ Len(list) <= size

\* C29 witness: a Purge has just removed one of two entries, and the entry
\* left, which has an expiry, is the one the index points at.
C29_Witness ==
  /\ last.op = "Purge" /\ last.removed = 1 /\ Len(list) = 1
  /\ list[1].expireAt # 0 /\ items[list[1].key] = 1

\* A thread is inside Peek: it holds the lock in read mode only.
Shared(th) == threads[th].pc # "idle"

\* A thread is inside the removal of an element from the list and the index.
Removing(th) == threads[th].pc \in {"unlink", "clear", "dec", "delete"}

\* C28: no step of a call that holds the lock in read mode only removes,
\* inserts or moves an entry of the list or of the index, and two threads
\* are never inside a removal at the same time.
C28_ExclusiveGuard ==
  [][/\ (\E th \in ThreadIds : Shared(th) /\ threads'[th] # threads[th]) =>
          /\ list' = list
          /\ items' = items
          /\ lenSkew' = lenSkew
     /\ \A t1, t2 \in ThreadIds :
          (Removing(t1) /\ Removing(t2))' => t1 = t2]_vars

\* C30: when the cleaner task panics in its body, the panic is recovered
\* inside the task: no call ends in a panic, a new cleaner task is launched
\* in its place for the same cache, and the stored entries, the capacity,
\* the TTL and the stop channel are as before the failure.
C30_SupervisedRestart ==
  [][(last'.op = "recover") =>
       LET t == last'.val IN
       /\ IsTask(t) /\ Len(tasks') = Len(tasks)
       /\ tasks'[t].pc = "start" /\ tasks'[t].gen # tasks[t].gen
       /\ \A u \in 1..Len(tasks) : u # t => tasks'[u] = tasks[u]
       /\ UNCHANGED <<list, items, size, ttl>>
       /\ UNCHANGED <<cleanerStopCh, chanClosed, cleanerInterval>>]_vars

\* C30 witness: the task of a cache that stores an entry with an expiry has
\* panicked and has been launched again, the stop channel being open.
C30_Witness ==
  /\ last.op = "recover" /\ Len(list) = 2 /\ list[1].expireAt # 0
  /\ cleanerStopCh # NilCh /\ ~chanClosed[cleanerStopCh]
  /\ TaskAt(last.val, "start")

\* The key of the entry at the back of the list, which the next overflow
\* evicts.
Victim(s) == IF s = <<>> THEN NoKey ELSE s[Len(s)].key

C32_HandleBoundToKey ==
  [][/\ (last'.op = "Expire" /\ IsStored(last'.key)) =>
          LET k == last'.key
              d == last'.val.d
          IN
          /\ threads[last'.val.th].key = k
          /\ list' = [list EXCEPT ![Pos(k)].expireAt =
                                     IF d > 0 THEN now + d ELSE 0]
          /\ items' = items
     /\ (last'.op = "Set") =>
          LET k  == last'.key
              th == last'.val.th
          IN
          /\ threads'[th] = [pc |-> "handle", key |-> k]
          /\ list'[1].key = k /\ list'[1].value = last'.val.v
          /\ list'[1].expireAt =
               IF IsStored(k) /\ list[Pos(k)].expireAt = 0 THEN 0
               ELSE IF ttl > 0 THEN now + ttl ELSE 0]_vars

\* C32 witness: thread 1 has called Expire on a handle whose entry had been
\* removed; the entry stored anew under the key by thread 2, with the value
\* 2, now has the expiry thread 1 asked for, and thread 2 still holds its
\* own handle on the key.
C32_Witness ==
  /\ last.op = "Expire" /\ last.val.th = 1 /\ last.val.d = 1
  /\ threads[1] = [pc |-> "stale", key |-> last.key]
  /\ threads[2] = [pc |-> "handle", key |-> last.key]
  /\ IsStored(last.key)
  /\ list[Pos(last.key)].value = 2
  /\ list[Pos(last.key)].expireAt = now + 1
  /\ ttl = 0

\* The positions of the list whose keys the step removes from the index.
Gone == {i \in 1..Len(list) : list[i].key \notin DOMAIN items'}

\* C33: expired entries that no call has removed count towards the
\* capacity: a Set of a new key on a list as long as the capacity removes
\* the back entry, expired or not, and nothing else, also when another
\* entry is expired; no other Set removes anything; and every entry a Set
\* neither writes nor evicts stays stored as it was, expired or not.
C33_ExpiredOccupyCapacity ==
  [][(last'.op = "Set") =>
       /\ Gone = IF ~IsStored(last'.key) /\ Len(list) = size
                   THEN {Len(list)} ELSE {}
       /\ \A i \in 1..Len(list) :
            (list[i].key # last'.key /\ i \notin Gone) =>
               \E j \in 1..Len(list') : list'[j] = list[i]]_vars

\* C33 witness: a Set on a full cache has evicted the back entry although
\* the entry in front of it was expired; the expired entry is still stored,
\* now at the back.
C33_Witness ==
  /\ last.op = "Set" /\ last.removed = 1 /\ ~last.found
  /\ Capacity = 2 /\ Len(list) = 2
  /\ ~notExpired(list[2], now)

\* C34: with a default TTL that is zero or negative, Set(k, v) of a stored
\* key whose entry has a finite expiry leaves the entry without expiry: it
\* is found at every later instant; this also when the entry was expired
\* and not yet removed: the Set treats k as stored, evicts nothing and
\* moves the entry to the front.
C34_SetClearsExpiry ==
  [][(/\ last'.op = "Set" /\ ttl <= 0
      /\ IsStored(last'.key) /\ list[Pos(last'.key)].expireAt # 0) =>
       LET k == last'.key IN
       /\ last'.found
       /\ list'[1] = Entry(k, last'.val.v, 0)
       /\ Len(list') = Len(list) /\ DOMAIN items' = DOMAIN items
       /\ \A t \in now..(MaxTime + 1) :
            get([list |-> list', items |-> items'], k, TRUE, t).found]_vars

\* C34 witness: under a negative default TTL a Set has written over an
\* entry that was expired and still stored; the entry has no expiry now.
C34_Witness ==
  /\ last.op = "Set" /\ last.found /\ ttl < 0
  /\ last.val.old > 0 /\ last.val.old <= now
  /\ list[1].key = last.key /\ list[1].expireAt = 0

\* Task t is before its ticker in generation g.
Starting(t, g) == IF IsTask(t)
                    THEN tasks[t].pc = "start" /\ tasks[t].gen = g
                    ELSE FALSE
\* Task t has been launched again since generation g.
Relaunched(t, g) == IF IsTask(t) THEN tasks[t].gen # g ELSE FALSE
\* Task t was launched by a Cleaner call with an interval that is not
\* positive.
NonPositive(t) == IF IsTask(t) THEN tasks[t].arg <= 0 ELSE FALSE

C35_DeadlockFreedom ==
  /\ [][(Cardinality(Writers) <= 1 /\ (Writers = {} \/ Readers = {}))']_vars
  /\ \A th \in ThreadIds : ~ThreadAt(th, "idle") ~> ThreadAt(th, "idle")
  /\ \A t \in 1..MaxSweepers : TaskAt(t, "tick") ~> TaskAt(t, "loop")

\* C35 witness: thread 1 holds the guard in exclusive mode while thread 2 is
\* blocked in RLock and the cleaner task, having taken a tick, is about to
\* call Purge.
C35_Witness ==
  /\ ThreadAt(1, "locked") /\ ThreadAt(2, "RLock")
  /\ TaskAt(1, "tick") /\ Len(list) = 1

====
